---- MODULE Spec2Model ----
(***************************************************************************)
(* BulkUpdater of iris/backend.py: a write-coalescing buffer in front of a *)
(* mongo collection.  Threads call update(documents...) and flush(force);  *)
(* both take the updater's reentrant lock.  Every statement that touches   *)
(* the shared state or the collection is one step of the calling thread.   *)
(*                                                                         *)
(* Documents are mutable mapping objects: the model keeps them in a heap   *)
(* indexed by object reference.  Two references are the same object iff    *)
(* they are equal; two objects are == (Python mapping equality) iff their  *)
(* fields are equal.  The attribute _unique_attr is not a mapping field.   *)
(***************************************************************************)
EXTENDS Integers, Sequences, FiniteSets

\* ---------------------------------------------------------------- bounds
NThreads == 2          \* threads sharing the updater
MaxDocs == 2           \* documents submitted over a run
MaxBatch == 2          \* documents of one update call
MaxThreshold == 3      \* the largest threshold an updater is built with
MaxFail == 1           \* failing collection calls over a run

Threads == 1..NThreads
None == "None"                       \* Python None / attribute absent
Keys == {"email", "name"}            \* field names usable as unique attribute
Vals == {1, 2, 3}                       \* field values
NoId == 0                            \* '_id' not in document
NoThread == 0                        \* the lock has no owner

\* Thresholds an updater may be built with; the constructor checks
\* nothing, so zero and a negative one are among them.
Thresholds == {-1} \cup (0..MaxThreshold)

\* A document object: '_id' (NoId when absent), two fields, and the
\* optional attribute _unique_attr (None when the object has none).
Doc(id, e, n, ua) == [id |-> id, email |-> e, name |-> n, ua |-> ua]

\* Documents a caller may pass to update: one that carries an identity;
\* two of equal fields, one of them with its own _unique_attr; one that
\* shares only the email of those; two with emails of their own.
DocInputs ==
    { Doc(1, 1, 1, None),
      Doc(NoId, 1, 1, None),
      Doc(NoId, 1, 1, "name"),
      Doc(NoId, 1, 2, None),
      Doc(NoId, 2, 2, None),
      Doc(NoId, 3, 2, None) }

\* Argument tuples of one update call.
RECURSIVE Tuples(_)
Tuples(k) ==
    IF k = 0 THEN {<< >>}
    ELSE {Append(s, d) : s \in Tuples(k - 1), d \in DocInputs}

VARIABLES
    threshold, unique_attr,          \* self.threshold, self.unique_attr
    total,                           \* self.total
    updates, inserts,                \* self.documents['updates'|'inserts']: refs
    _inserts, _updates,              \* lifetime counters
    lockOwner, lockCount,            \* self.lock (threading.RLock)
    heap,                            \* document objects by reference
    remote,                          \* the collection: documents in natural order
    pc,                              \* each thread's position
    docs, idx,                       \* update: the documents tuple, loop index
    force, nested,                   \* flush: its argument; called from update?
    lookups, results,                \* _flush locals
    findLeft, keysLeft, curKey, valsLeft, document, curId, saveIdx,
    outcome,                         \* how each thread's last call ended
    written,                         \* per object: write calls that carried it
    wire,                            \* collection calls of the current _flush
    dbcalls, nflush,                 \* per thread, in its current call
    failures,                        \* failed collection calls so far
    pre,                             \* the state on entry to _flush
    t0                               \* per thread: total when update began

bufVars == <<threshold, unique_attr, total, updates, inserts, _inserts, _updates>>
lockVars == <<lockOwner, lockCount>>
callVars == <<docs, idx, force, nested>>
flushVars == <<lookups, results, findLeft, keysLeft, curKey, valsLeft,
               document, curId, saveIdx>>
ghostVars == <<written, wire, dbcalls, nflush, failures, pre, t0>>
vars == <<bufVars, lockVars, heap, remote, pc, callVars, flushVars,
          outcome, ghostVars>>

\* ---------------------------------------------------------------- helpers
Range(s) == {s[i] : i \in 1..Len(s)}

EmptyMap == [k \in Keys |-> [v \in Vals |-> 0]]

\* No flush has been entered by the call in progress.
NoPre ==
    [inserts |-> << >>, updates |-> << >>, heap |-> << >>, total |-> 0,
     remote |-> << >>, _inserts |-> 0, _updates |-> 0, force |-> FALSE]

\* An object the updater no longer refers to.
Dropped == [id |-> NoId, email |-> 0, name |-> 0, ua |-> None]

\* Initial contents of the collection: two stored documents, no two with
\* the same email or the same name.
RemoteInit ==
    << [id |-> 1, email |-> 1, name |-> 1],
       [id |-> 2, email |-> 2, name |-> 3] >>

Init ==
    /\ threshold \in Thresholds
    /\ unique_attr \in {None, "email"}
    /\ total = 0
    /\ updates = << >>
    /\ inserts = << >>
    /\ _inserts = 0
    /\ _updates = 0
    /\ lockOwner = NoThread
    /\ lockCount = 0
    /\ heap = << >>
    /\ remote = RemoteInit
    /\ pc = [t \in Threads |-> "idle"]
    /\ docs = [t \in Threads |-> << >>]
    /\ idx = [t \in Threads |-> 0]
    /\ force = [t \in Threads |-> FALSE]
    /\ nested = [t \in Threads |-> FALSE]
    /\ lookups = [t \in Threads |-> EmptyMap]
    /\ results = [t \in Threads |-> EmptyMap]
    /\ findLeft = [t \in Threads |-> {}]
    /\ keysLeft = [t \in Threads |-> {}]
    /\ curKey = [t \in Threads |-> None]
    /\ valsLeft = [t \in Threads |-> {}]
    /\ document = [t \in Threads |-> 0]
    /\ curId = [t \in Threads |-> 0]
    /\ saveIdx = [t \in Threads |-> 0]
    /\ outcome = [t \in Threads |-> "none"]
    /\ written = << >>
    /\ wire = << >>
    /\ dbcalls = [t \in Threads |-> 0]
    /\ nflush = [t \in Threads |-> 0]
    /\ failures = 0
    /\ pre = NoPre
    /\ t0 = [t \in Threads |-> 0]

\* ---------------------------------------------------------------- the lock
\* Mutant: acquire never blocks.
CanAcquireAlways(t) == TRUE

\* threading.RLock: free, or already held by the calling thread.
CanAcquire(t) == lockOwner = NoThread \/ lockOwner = t

\* self.lock.acquire()
Acquire(t) ==
    /\ CanAcquire(t)
    /\ lockOwner' = t
    /\ lockCount' = lockCount + 1

\* self.lock.release(): the owner gives up one level of ownership.
Release(t) ==
    /\ lockOwner = t
    /\ lockCount' = lockCount - 1
    /\ lockOwner' = IF lockCount = 1 THEN NoThread ELSE t

\* A frame's locals are gone once the call is over.
NoLocals(t) ==
    /\ lookups' = [lookups EXCEPT ![t] = EmptyMap]
    /\ results' = [results EXCEPT ![t] = EmptyMap]
    /\ findLeft' = [findLeft EXCEPT ![t] = {}]
    /\ keysLeft' = [keysLeft EXCEPT ![t] = {}]
    /\ curKey' = [curKey EXCEPT ![t] = None]
    /\ valsLeft' = [valsLeft EXCEPT ![t] = {}]
    /\ document' = [document EXCEPT ![t] = 0]
    /\ curId' = [curId EXCEPT ![t] = 0]
    /\ saveIdx' = [saveIdx EXCEPT ![t] = 0]

\* Mutant: an error handler that resets the buffer before re-raising.
RaiseAndClear(t) ==
    /\ pc' = [pc EXCEPT ![t] = "idle"]
    /\ outcome' = [outcome EXCEPT ![t] = "raised"]
    /\ docs' = [docs EXCEPT ![t] = << >>]
    /\ idx' = [idx EXCEPT ![t] = 0]
    /\ force' = [force EXCEPT ![t] = FALSE]
    /\ nested' = [nested EXCEPT ![t] = FALSE]
    /\ dbcalls' = [dbcalls EXCEPT ![t] = 0]
    /\ nflush' = [nflush EXCEPT ![t] = 0]
    /\ t0' = [t0 EXCEPT ![t] = 0]
    /\ NoLocals(t)
    /\ updates' = << >>
    /\ inserts' = << >>
    /\ total' = 0
    /\ UNCHANGED <<threshold, unique_attr, _inserts, _updates, lockVars, heap>>

\* An exception leaves _flush, flush and update: none of them has a
\* handler or a finally clause, so the frames unwind to the caller of the
\* public method and the updater, its lock included, stays as it is.
Raise(t) ==
    /\ pc' = [pc EXCEPT ![t] = "idle"]
    /\ outcome' = [outcome EXCEPT ![t] = "raised"]
    /\ docs' = [docs EXCEPT ![t] = << >>]
    /\ idx' = [idx EXCEPT ![t] = 0]
    /\ force' = [force EXCEPT ![t] = FALSE]
    /\ nested' = [nested EXCEPT ![t] = FALSE]
    /\ dbcalls' = [dbcalls EXCEPT ![t] = 0]
    /\ nflush' = [nflush EXCEPT ![t] = 0]
    /\ t0' = [t0 EXCEPT ![t] = 0]
    /\ NoLocals(t)
    /\ UNCHANGED <<bufVars, lockVars, heap>>

\* ---------------------------------------------------------------- update
\* Mutant: every document is taken for an insert.
IsUpdateNever(d) == FALSE

\* '_id' in document
IsUpdate(d) == d.id # NoId

\* A thread calls update(...).  No other thread can reach the documents
\* of the call before the lock is taken, so they are drawn there.
UpdateCall(t) ==
    /\ pc[t] = "idle"
    /\ pc' = [pc EXCEPT ![t] = "u_lock"]
    /\ outcome' = [outcome EXCEPT ![t] = "none"]
    /\ UNCHANGED <<bufVars, lockVars, heap, remote, callVars, flushVars,
                   ghostVars>>

\* line 62: self.lock.acquire(); the loop of line 63 is over fresh
\* document objects, or over none.
UpdateLock(t) ==
    /\ pc[t] = "u_lock"
    /\ Acquire(t)
    /\ \E k \in 0..MaxBatch : \E ds \in Tuples(k) :
        /\ Len(heap) + k <= MaxDocs
        /\ heap' = heap \o ds
        /\ written' = written \o [i \in 1..k |-> 0]
        /\ docs' = [docs EXCEPT ![t] = [i \in 1..k |-> Len(heap) + i]]
    /\ idx' = [idx EXCEPT ![t] = 1]
    /\ pc' = [pc EXCEPT ![t] = "u_for"]
    /\ wire' = << >>
    /\ pre' = NoPre
    /\ t0' = [t0 EXCEPT ![t] = total]
    /\ UNCHANGED <<bufVars, remote, force, nested, flushVars, outcome,
                   dbcalls, nflush, failures>>

\* lines 63-67: the next document goes to 'updates' or to 'inserts'.
UpdateAppend(t) ==
    /\ pc[t] = "u_for"
    /\ idx[t] <= Len(docs[t])
    /\ LET r == docs[t][idx[t]] IN
        IF IsUpdate(heap[r])
        THEN updates' = Append(updates, r) /\ inserts' = inserts
        ELSE inserts' = Append(inserts, r) /\ updates' = updates
    /\ pc' = [pc EXCEPT ![t] = "u_total"]
    /\ UNCHANGED <<threshold, unique_attr, total, _inserts, _updates, lockVars,
                   heap, remote, callVars, flushVars, outcome, ghostVars>>

\* Mutant: the total counts every document twice.
UpdateTotalTwice(t) ==
    /\ pc[t] = "u_total"
    /\ total' = total + 2
    /\ pc' = [pc EXCEPT ![t] = "u_if"]
    /\ UNCHANGED <<threshold, unique_attr, updates, inserts, _inserts, _updates,
                   lockVars, heap, remote, callVars, flushVars, outcome, ghostVars>>

\* line 68: self.total += 1
UpdateTotal(t) ==
    /\ pc[t] = "u_total"
    /\ total' = total + 1
    /\ pc' = [pc EXCEPT ![t] = "u_if"]
    /\ UNCHANGED <<threshold, unique_attr, updates, inserts, _inserts, _updates,
                   lockVars, heap, remote, callVars, flushVars, outcome, ghostVars>>

\* Mutant: the comparison is strict.
ThresholdPassed == total > threshold

\* line 69: self.total >= self.threshold
ThresholdMet == total >= threshold

\* lines 69-70: threshold met: self.flush(False), inline.
UpdateFlush(t) ==
    /\ pc[t] = "u_if"
    /\ ThresholdMet
    /\ force' = [force EXCEPT ![t] = FALSE]
    /\ nested' = [nested EXCEPT ![t] = TRUE]
    /\ pc' = [pc EXCEPT ![t] = "f_lock"]
    /\ UNCHANGED <<bufVars, lockVars, heap, remote, docs, idx, flushVars,
                   outcome, ghostVars>>

\* line 69 false: on to the next document.
UpdateNoFlush(t) ==
    /\ pc[t] = "u_if"
    /\ ~ThresholdMet
    /\ idx' = [idx EXCEPT ![t] = idx[t] + 1]
    /\ pc' = [pc EXCEPT ![t] = "u_for"]
    /\ UNCHANGED <<bufVars, lockVars, heap, remote, docs, force, nested,
                   flushVars, outcome, ghostVars>>

\* line 71: the loop is over: self.lock.release() and return.
UpdateUnlock(t) ==
    /\ pc[t] = "u_for"
    /\ idx[t] > Len(docs[t])
    /\ Release(t)
    /\ pc' = [pc EXCEPT ![t] = "idle"]
    /\ docs' = [docs EXCEPT ![t] = << >>]
    /\ idx' = [idx EXCEPT ![t] = 0]
    /\ dbcalls' = [dbcalls EXCEPT ![t] = 0]
    /\ nflush' = [nflush EXCEPT ![t] = 0]
    /\ wire' = << >>
    /\ pre' = NoPre
    /\ t0' = [t0 EXCEPT ![t] = 0]
    /\ UNCHANGED <<bufVars, heap, remote, force, nested, flushVars, outcome,
                   written, failures>>

\* ---------------------------------------------------------------- the collection
\* Python mapping equality of two document objects.
DocEq(a, b) == a.id = b.id /\ a.email = b.email /\ a.name = b.name

Max(S) == CHOOSE x \in S : \A y \in S : y <= x

\* An identity no document carries yet (the driver's fresh ObjectId).
FreshId(rem, hp) ==
    1 + Max({0} \cup {rem[i].id : i \in 1..Len(rem)} \cup {hp[i].id : i \in 1..Len(hp)})

Stored(d) == [id |-> d.id, email |-> d.email, name |-> d.name]

\* collection.find({k: {'$in': values}}, [k, '_id']) read into a dict
\* value -> _id (line 106): of several matches the last one stays.
FindResult(rem, k, values) ==
    [v \in Vals |->
        LET S == {i \in 1..Len(rem) : rem[i][k] = v} IN
        IF v \in values /\ S # {} THEN rem[Max(S)].id ELSE 0]

\* collection.insert(inserts) (line 119): each document is stored in list
\* order; one without '_id' is given a fresh one, which the driver also
\* writes into the caller's object; one whose '_id' is already stored is
\* rejected by the unique index on '_id'.
RECURSIVE InsertMany(_, _, _, _)
InsertMany(rem, hp, ins, i) ==
    IF i > Len(ins) THEN [remote |-> rem, heap |-> hp]
    ELSE LET r == ins[i]
             d == hp[r]
         IN IF d.id = NoId
            THEN LET n == FreshId(rem, hp)
                     e == [d EXCEPT !.id = n]
                 IN InsertMany(Append(rem, Stored(e)), [hp EXCEPT ![r] = e], ins, i + 1)
            ELSE IF \E j \in 1..Len(rem) : rem[j].id = d.id
                 THEN InsertMany(rem, hp, ins, i + 1)
                 ELSE InsertMany(Append(rem, Stored(d)), hp, ins, i + 1)

\* collection.save(doc) (line 121): upsert by '_id'.
SaveOne(rem, hp, r) ==
    LET d == hp[r] IN
    IF d.id = NoId
    THEN InsertMany(rem, hp, <<r>>, 1)
    ELSE [remote |->
             IF \E j \in 1..Len(rem) : rem[j].id = d.id
             THEN [j \in 1..Len(rem) |-> IF rem[j].id = d.id THEN Stored(d) ELSE rem[j]]
             ELSE Append(rem, Stored(d)),
          heap |-> hp]

\* One more write call carried each of the objects of rs.
Carried(w, rs) ==
    [r \in 1..Len(w) |-> w[r] + Cardinality({i \in 1..Len(rs) : rs[i] = r})]

\* One call on the collection handle: what was called, whether it came
\* back, and the documents it carried.
Call(op, ok, ds) == [op |-> op, ok |-> ok, docs |-> ds]

\* A collection call may fail (network or database error).
MayFail == failures < MaxFail

\* ---------------------------------------------------------------- flush
\* A thread calls flush(force).
FlushCall(t) ==
    /\ pc[t] = "idle"
    /\ \E f \in BOOLEAN : force' = [force EXCEPT ![t] = f]
    /\ nested' = [nested EXCEPT ![t] = FALSE]
    /\ pc' = [pc EXCEPT ![t] = "f_lock"]
    /\ outcome' = [outcome EXCEPT ![t] = "none"]
    /\ UNCHANGED <<bufVars, lockVars, heap, remote, docs, idx, flushVars,
                   ghostVars>>

\* line 77: self.lock.acquire()
FlushLock(t) ==
    /\ pc[t] = "f_lock"
    /\ Acquire(t)
    /\ pc' = [pc EXCEPT ![t] = "f_if"]
    /\ wire' = IF nested[t] THEN wire ELSE << >>
    /\ pre' = IF nested[t] THEN pre ELSE NoPre
    /\ UNCHANGED <<bufVars, heap, remote, callVars, flushVars, outcome,
                   written, dbcalls, nflush, failures, t0>>

\* Mutant: a threshold <= 0 switches the automatic flush off.
NoOpUnlessPositive(t) == ~force[t] /\ (total < threshold \/ threshold <= 0)

\* Mutant: the comparison is off by one.
NoOpOffByOne(t) == total + 1 < threshold /\ ~force[t]

\* line 78: nothing to do for a non-forced flush below the threshold.
NoOp(t) == total < threshold /\ ~force[t]

FlushSkip(t) ==
    /\ pc[t] = "f_if"
    /\ NoOp(t)
    /\ pc' = [pc EXCEPT ![t] = "f_skip"]
    /\ UNCHANGED <<bufVars, lockVars, heap, remote, callVars, flushVars,
                   outcome, ghostVars>>

\* Mutant: the first flush ends update's loop.
ReturnBreak(t) ==
    IF nested[t]
    THEN /\ pc' = [pc EXCEPT ![t] = "u_for"]
         /\ idx' = [idx EXCEPT ![t] = Len(docs[t]) + 1]
         /\ nested' = [nested EXCEPT ![t] = FALSE]
         /\ UNCHANGED <<docs, force, outcome, dbcalls, nflush, wire, pre>>
    ELSE /\ pc' = [pc EXCEPT ![t] = "idle"]
         /\ force' = [force EXCEPT ![t] = FALSE]
         /\ dbcalls' = [dbcalls EXCEPT ![t] = 0]
         /\ nflush' = [nflush EXCEPT ![t] = 0]
         /\ wire' = << >>
         /\ pre' = NoPre
         /\ UNCHANGED <<docs, idx, nested, outcome>>

\* flush returns: into update's loop (line 70), or to the thread.
Return(t) ==
    IF nested[t]
    THEN /\ pc' = [pc EXCEPT ![t] = "u_for"]
         /\ idx' = [idx EXCEPT ![t] = idx[t] + 1]
         /\ nested' = [nested EXCEPT ![t] = FALSE]
         /\ UNCHANGED <<docs, force, outcome, dbcalls, nflush, wire, pre>>
    ELSE /\ pc' = [pc EXCEPT ![t] = "idle"]
         /\ force' = [force EXCEPT ![t] = FALSE]
         /\ dbcalls' = [dbcalls EXCEPT ![t] = 0]
         /\ nflush' = [nflush EXCEPT ![t] = 0]
         /\ wire' = << >>
         /\ pre' = NoPre
         /\ UNCHANGED <<docs, idx, nested, outcome>>

\* lines 79-80: self.lock.release(); return
FlushSkipUnlock(t) ==
    /\ pc[t] = "f_skip"
    /\ Release(t)
    /\ Return(t)
    /\ UNCHANGED <<bufVars, heap, remote, flushVars, written, failures, t0>>

\* getattr(document, '_unique_attr', self.unique_attr)
Unique(d) == IF d.ua # None THEN d.ua ELSE unique_attr

\* lines 95-98: lookups[unique][document[unique]] = document, in list order.
RECURSIVE ScanInserts(_, _, _)
ScanInserts(ins, i, acc) ==
    IF i > Len(ins) THEN acc
    ELSE LET d == heap[ins[i]]
             unique == Unique(d)
         IN ScanInserts(ins, i + 1,
                IF unique # None THEN [acc EXCEPT ![unique][d[unique]] = ins[i]]
                ELSE acc)

KeysOf(m) == {k \in Keys : \E v \in Vals : m[k][v] # 0}
ValsOf(m, k) == {v \in Vals : m[k][v] # 0}

\* Mutant: the saves come first, and nothing sends the inserts after them.
WritePcSavesFirst(ins, upd) ==
    IF upd # << >> THEN "fl_save"
    ELSE IF ins # << >> THEN "fl_insert"
    ELSE "c_count"

\* Where _flush goes once the loops of lines 109-117 are over: the bulk
\* insert if inserts is not empty (line 118), else the first save if
\* there is one (line 120), else _clear (line 122).
WritePc(ins, upd) ==
    IF ins # << >> THEN "fl_insert"
    ELSE IF upd # << >> THEN "fl_save"
    ELSE "c_count"

\* Some key of ks still has a match to move.
HasMatch(res, ks) == \E k \in ks : ValsOf(res, k) # {}

\* lines 78, 81, 90-98: _flush starts and builds lookups.
FlushStart(t) ==
    /\ pc[t] = "f_if"
    /\ ~NoOp(t)
    /\ LET m == ScanInserts(inserts, 1, EmptyMap) IN
        /\ lookups' = [lookups EXCEPT ![t] = m]
        /\ findLeft' = [findLeft EXCEPT ![t] = KeysOf(m)]
        /\ pc' = [pc EXCEPT ![t] =
                     IF KeysOf(m) # {} THEN "fl_find" ELSE WritePc(inserts, updates)]
    /\ saveIdx' = [saveIdx EXCEPT ![t] = 1]
    /\ wire' = << >>
    /\ nflush' = [nflush EXCEPT ![t] = nflush[t] + 1]
    /\ pre' = [inserts |-> inserts, updates |-> updates, heap |-> heap,
               total |-> total, remote |-> remote, _inserts |-> _inserts,
               _updates |-> _updates, force |-> force[t]]
    /\ UNCHANGED <<bufVars, lockVars, heap, remote, callVars, results, keysLeft,
                   curKey, valsLeft, document, curId, outcome,
                   written, dbcalls, failures, t0>>

\* lines 101-106: one find per key of lookups, in the dict's order; after
\* the last one, line 109 starts over the keys of results.
FlushFind(t) ==
    /\ pc[t] = "fl_find"
    /\ \E k \in findLeft[t] :
        LET res == [results[t] EXCEPT ![k] =
                       FindResult(remote, k, ValsOf(lookups[t], k))]
            left == findLeft[t] \ {k}
        IN /\ results' = [results EXCEPT ![t] = res]
           /\ findLeft' = [findLeft EXCEPT ![t] = left]
           /\ wire' = Append(wire, Call("find", TRUE, << >>))
           /\ keysLeft' = [keysLeft EXCEPT ![t] =
                              IF left = {} THEN KeysOf(lookups[t]) ELSE {}]
           /\ pc' = [pc EXCEPT ![t] =
                        IF left # {} THEN "fl_find"
                        ELSE IF HasMatch(res, KeysOf(lookups[t])) THEN "fl_val"
                        ELSE WritePc(inserts, updates)]
    /\ dbcalls' = [dbcalls EXCEPT ![t] = dbcalls[t] + 1]
    /\ UNCHANGED <<bufVars, lockVars, heap, remote, callVars, lookups,
                   curKey, valsLeft, document, curId, saveIdx,
                   outcome, written, nflush, failures, pre, t0>>

\* line 106: the find raises.
FlushFindFail(t) ==
    /\ pc[t] = "fl_find"
    /\ MayFail
    /\ failures' = failures + 1
    /\ wire' = Append(wire, Call("find", FALSE, << >>))
    /\ Raise(t)
    /\ UNCHANGED <<remote, written, pre>>

\* list.remove(x): the first element == x goes; 0 when there is none.
FirstEqual(ins, hp, r) ==
    LET S == {i \in 1..Len(ins) : DocEq(hp[ins[i]], hp[r])} IN
    IF S = {} THEN 0 ELSE CHOOSE i \in S : \A j \in S : i <= j

RemoveAt(s, i) == [j \in 1..(Len(s) - 1) |-> IF j < i THEN s[j] ELSE s[j + 1]]

\* lines 109-110: the (key, value) the two loops come to next: the next
\* match of the current key, or the first match of another key of
\* results, in the dicts' order.
NextMatch(t, k, v) ==
    IF valsLeft[t] # {}
    THEN k = curKey[t] /\ v \in valsLeft[t]
    ELSE k \in keysLeft[t] /\ v \in ValsOf(results[t], k)

\* lines 109-115: the next match; an element equal to its document
\* leaves inserts.
FlushRemove(t) ==
    /\ pc[t] = "fl_val"
    /\ \E k \in Keys : \E v \in Vals :
        /\ NextMatch(t, k, v)
        /\ LET r == lookups[t][k][v]
               i == FirstEqual(inserts, heap, r)
           IN /\ i # 0
              /\ inserts' = RemoveAt(inserts, i)
              /\ document' = [document EXCEPT ![t] = r]
              /\ curId' = [curId EXCEPT ![t] = results[t][k][v]]
        /\ curKey' = [curKey EXCEPT ![t] = k]
        /\ keysLeft' = [keysLeft EXCEPT ![t] = keysLeft[t] \ {k}]
        /\ valsLeft' = [valsLeft EXCEPT ![t] =
                           (IF valsLeft[t] # {} THEN valsLeft[t]
                            ELSE ValsOf(results[t], k)) \ {v}]
    /\ pc' = [pc EXCEPT ![t] = "fl_setid"]
    /\ UNCHANGED <<threshold, unique_attr, total, updates, _inserts, _updates,
                   lockVars, heap, remote, callVars, lookups, results, findLeft,
                   saveIdx, outcome, ghostVars>>

\* line 115: no element of inserts equals the document: ValueError.
FlushRemoveError(t) ==
    /\ pc[t] = "fl_val"
    /\ \E k \in Keys : \E v \in Vals :
        /\ NextMatch(t, k, v)
        /\ FirstEqual(inserts, heap, lookups[t][k][v]) = 0
    /\ Raise(t)
    /\ UNCHANGED <<remote, written, wire, failures, pre>>

\* line 116: document['_id'] = _id
FlushSetId(t) ==
    /\ pc[t] = "fl_setid"
    /\ heap' = [heap EXCEPT ![document[t]].id = curId[t]]
    /\ pc' = [pc EXCEPT ![t] = "fl_append"]
    /\ UNCHANGED <<bufVars, lockVars, remote, callVars, flushVars, outcome,
                   ghostVars>>

\* line 117: updates.append(document); then the next match, or line 118.
FlushAppend(t) ==
    /\ pc[t] = "fl_append"
    /\ updates' = Append(updates, document[t])
    /\ pc' = [pc EXCEPT ![t] =
                 IF valsLeft[t] # {} \/ HasMatch(results[t], keysLeft[t])
                 THEN "fl_val"
                 ELSE WritePc(inserts, updates')]
    /\ UNCHANGED <<threshold, unique_attr, total, inserts, _inserts, _updates,
                   lockVars, heap, remote, callVars, flushVars, outcome, ghostVars>>

\* lines 118-119: the remaining inserts go out in one bulk insert.
FlushInsert(t) ==
    /\ pc[t] = "fl_insert"
    /\ LET done == InsertMany(remote, heap, inserts, 1) IN
        /\ remote' = done.remote
        /\ heap' = done.heap
    /\ written' = Carried(written, inserts)
    /\ wire' = Append(wire, Call("insert", TRUE, inserts))
    /\ dbcalls' = [dbcalls EXCEPT ![t] = dbcalls[t] + 1]
    /\ pc' = [pc EXCEPT ![t] = IF updates # << >> THEN "fl_save" ELSE "c_count"]
    /\ UNCHANGED <<bufVars, lockVars, callVars, flushVars, outcome,
                   nflush, failures, pre, t0>>

\* line 119: the bulk insert raises.
FlushInsertFail(t) ==
    /\ pc[t] = "fl_insert"
    /\ MayFail
    /\ failures' = failures + 1
    /\ wire' = Append(wire, Call("insert", FALSE, inserts))
    /\ Raise(t)
    /\ UNCHANGED <<remote, written, pre>>

\* lines 120-121: the next document of updates is saved; after the last
\* one, line 122.
FlushSave(t) ==
    /\ pc[t] = "fl_save"
    /\ LET r == updates[saveIdx[t]]
           done == SaveOne(remote, heap, r)
       IN /\ remote' = done.remote
          /\ heap' = done.heap
          /\ written' = Carried(written, <<r>>)
          /\ wire' = Append(wire, Call("save", TRUE, <<r>>))
    /\ dbcalls' = [dbcalls EXCEPT ![t] = dbcalls[t] + 1]
    /\ saveIdx' = [saveIdx EXCEPT ![t] = saveIdx[t] + 1]
    /\ pc' = [pc EXCEPT ![t] =
                 IF saveIdx[t] < Len(updates) THEN "fl_save" ELSE "c_count"]
    /\ UNCHANGED <<bufVars, lockVars, callVars, lookups, results, findLeft,
                   keysLeft, curKey, valsLeft, document, curId, outcome,
                   nflush, failures, pre, t0>>

\* Mutant: a failing save is caught and the loop goes on.
FlushSaveSwallow(t) ==
    /\ pc[t] = "fl_save"
    /\ MayFail
    /\ failures' = failures + 1
    /\ wire' = Append(wire, Call("save", FALSE, <<updates[saveIdx[t]]>>))
    /\ saveIdx' = [saveIdx EXCEPT ![t] = saveIdx[t] + 1]
    /\ pc' = [pc EXCEPT ![t] =
                 IF saveIdx[t] < Len(updates) THEN "fl_save" ELSE "c_count"]
    /\ UNCHANGED <<bufVars, lockVars, heap, remote, callVars, lookups, results,
                   findLeft, keysLeft, curKey, valsLeft, document, curId,
                   outcome, written, dbcalls, nflush, pre, t0>>

\* line 121: a save raises.
FlushSaveFail(t) ==
    /\ pc[t] = "fl_save"
    /\ MayFail
    /\ failures' = failures + 1
    /\ wire' = Append(wire, Call("save", FALSE, <<updates[saveIdx[t]]>>))
    /\ Raise(t)
    /\ UNCHANGED <<remote, written, pre>>

\* Mutant: = instead of +=.
BumpSet(c, n) == n

\* lines 127-128: counter += len(list)
Bump(c, n) == c + n

\* lines 127-128: the lifetime counters grow by the lengths of the lists.
ClearCount(t) ==
    /\ pc[t] = "c_count"
    /\ _inserts' = Bump(_inserts, Len(inserts))
    /\ _updates' = Bump(_updates, Len(updates))
    /\ pc' = [pc EXCEPT ![t] = "c_docs"]
    /\ UNCHANGED <<threshold, unique_attr, total, updates, inserts,
                   lockVars, heap, remote, callVars, flushVars, outcome, ghostVars>>

\* lines 129-131: both lists are replaced by empty ones; the updater lets
\* go of the documents that were in them.
ClearDocs(t) ==
    /\ pc[t] = "c_docs"
    /\ updates' = << >>
    /\ inserts' = << >>
    /\ heap' = [r \in 1..Len(heap) |->
                   IF r \in Range(updates) \cup Range(inserts) THEN Dropped
                   ELSE heap[r]]
    /\ pc' = [pc EXCEPT ![t] = "c_total"]
    /\ UNCHANGED <<threshold, unique_attr, total, _inserts, _updates,
                   lockVars, remote, callVars, flushVars, outcome, ghostVars>>

\* line 132: self.total = 0; _clear and _flush return.
ClearTotal(t) ==
    /\ pc[t] = "c_total"
    /\ total' = 0
    /\ pc' = [pc EXCEPT ![t] = "f_unlock"]
    /\ NoLocals(t)
    /\ UNCHANGED <<threshold, unique_attr, updates, inserts, _inserts, _updates,
                   lockVars, heap, remote, callVars, outcome, ghostVars>>

\* line 82: self.lock.release() and flush returns.
FlushUnlock(t) ==
    /\ pc[t] = "f_unlock"
    /\ Release(t)
    /\ Return(t)
    /\ UNCHANGED <<bufVars, heap, remote, flushVars, written, failures, t0>>

Next ==
    \E t \in Threads :
        \/ UpdateCall(t)
        \/ UpdateLock(t)
        \/ UpdateAppend(t)
        \/ UpdateTotal(t)
        \/ UpdateFlush(t)
        \/ UpdateNoFlush(t)
        \/ UpdateUnlock(t)
        \/ FlushCall(t)
        \/ FlushLock(t)
        \/ FlushSkip(t)
        \/ FlushSkipUnlock(t)
        \/ FlushStart(t)
        \/ FlushFind(t)
        \/ FlushFindFail(t)
        \/ FlushRemove(t)
        \/ FlushRemoveError(t)
        \/ FlushSetId(t)
        \/ FlushAppend(t)
        \/ FlushInsert(t)
        \/ FlushInsertFail(t)
        \/ FlushSave(t)
        \/ FlushSaveFail(t)
        \/ ClearCount(t)
        \/ ClearDocs(t)
        \/ ClearTotal(t)
        \/ FlushUnlock(t)

Spec == Init /\ [][Next]_vars

\* ---------------------------------------------------------------- properties
Last(s) == s[Len(s)]

\* Thread t is between taking the lock and giving it back.
InSection(t) ==
    /\ pc[t] \notin {"idle", "u_lock"}
    /\ ~(pc[t] = "f_lock" /\ ~nested[t])

\* update is about to release the lock and return.
AtUpdateExit(t) == pc[t] = "u_for" /\ idx[t] > Len(docs[t])

\* The write calls of the current flush that came back.
WritesDone == {i \in 1..Len(wire) : wire[i].ok /\ wire[i].op \in {"insert", "save"}}

\* The last collection call of the current flush failed, and was an op.
LastFailed(ops) == wire # << >> /\ ~Last(wire).ok /\ Last(wire).op \in ops

\* C1: once every thread has returned, nothing has failed and the buffer
\* has been flushed, the two counters add up to the number of documents
\* submitted and every submitted document was carried by exactly one
\* write call.
C1_AllWrittenOnce ==
    ( /\ \A t \in Threads : pc[t] = "idle"
      /\ lockOwner = NoThread
      /\ failures = 0
      /\ total = 0 /\ inserts = << >> /\ updates = << >> )
    => /\ _inserts + _updates = Len(heap)
       /\ \A r \in 1..Len(heap) : written[r] = 1

\* C2: when the writes of a flush are done, every document that was a
\* pending insert on entry and whose unique-attribute value was already
\* stored then: has left inserts, was never in the bulk insert, was saved
\* under the stored document's identity, and the collection holds one
\* document with that value.
C2_DedupMerge ==
    \A t \in Threads : pc[t] = "c_count" =>
        \A r \in Range(pre.inserts) :
            LET d == pre.heap[r]
                u == Unique(d)
                had == IF u = None THEN {}
                       ELSE {j \in 1..Len(pre.remote) : pre.remote[j][u] = d[u]}
            IN had # {} =>
                /\ Cardinality({j \in 1..Len(remote) : remote[j][u] = d[u]}) = 1
                /\ \E i \in WritesDone :
                    /\ wire[i].op = "save"
                    /\ wire[i].docs = <<r>>
                    /\ heap[r].id \in {pre.remote[j].id : j \in had}
                /\ ~\E i \in 1..Len(wire) :
                    wire[i].op = "insert" /\ r \in Range(wire[i].docs)
                /\ r \notin Range(inserts)

\* C3: an update call of one document that began below a threshold N >= 1
\* ends without a flush if it left the total below N, and otherwise after
\* exactly one flush, not forced, entered with total = N, with the total
\* at 0 and both lists empty.
C3_ThresholdTrigger ==
    \A t \in Threads :
        (AtUpdateExit(t) /\ Len(docs[t]) = 1 /\ threshold >= 1 /\ t0[t] < threshold)
        => IF t0[t] + 1 < threshold
           THEN nflush[t] = 0 /\ total = t0[t] + 1
           ELSE /\ nflush[t] = 1
                /\ ~pre.force
                /\ pre.total = threshold
                /\ total = 0 /\ inserts = << >> /\ updates = << >>

\* The second one-document call under threshold 2 has flushed.
C3_Witness ==
    \E t \in Threads :
        /\ AtUpdateExit(t) /\ Len(docs[t]) = 1
        /\ threshold = 2 /\ t0[t] = 1 /\ nflush[t] = 1

\* C4: a forced flush entered below the threshold returns with both lists
\* empty and the total at 0, and every document that was pending on entry
\* was carried by a write call of it.
C4_ForcedFlushWritesAll ==
    \A t \in Threads :
        (pc[t] = "f_unlock" /\ pre.force /\ pre.total < threshold)
        => /\ inserts = << >> /\ updates = << >> /\ total = 0
           /\ \A r \in Range(pre.inserts) \cup Range(pre.updates) :
                \E i \in WritesDone : r \in Range(wire[i].docs)

\* C5: a non-forced flush below the threshold goes straight to its early
\* return; until it has returned no collection call was made by it and
\* the lists, the total, the counters and the collection stay as they were.
C5_NoOpFlush ==
    [][\A t \in Threads :
        /\ (pc[t] = "f_if" /\ total < threshold /\ ~force[t] /\ pc'[t] # "f_if")
            => /\ pc'[t] = "f_skip"
               /\ UNCHANGED <<updates, inserts, total, _inserts, _updates,
                              remote, written, wire, dbcalls>>
        /\ pc[t] = "f_skip"
            => /\ dbcalls[t] = 0 /\ wire = << >>
               /\ UNCHANGED <<updates, inserts, total, _inserts, _updates,
                              remote, written, wire>>
               /\ pc'[t] \in {"f_skip", "idle"}]_vars

\* A no-op flush with a document pending.
C5_Witness ==
    \E t \in Threads : pc[t] = "f_skip" /\ total > 0 /\ inserts # << >>

\* C6: the step of update that takes up a document appends it to updates
\* and leaves inserts alone if the document carries '_id', and appends it
\* to inserts and leaves updates alone if not; update takes up every
\* document it is given.
C6_Classification ==
    [][\A t \in Threads :
        (pc[t] = "u_for" /\ idx[t] <= Len(docs[t]) /\ pc'[t] # "u_for")
        => /\ pc'[t] = "u_total"
           /\ LET r == docs[t][idx[t]] IN
                IF heap[r].id # NoId
                THEN updates' = Append(updates, r) /\ inserts' = inserts
                ELSE inserts' = Append(inserts, r) /\ updates' = updates]_vars

\* One document of each kind has been appended.
C6_Witness ==
    \E t \in Threads :
        /\ pc[t] = "u_total"
        /\ Len(updates) = 1 /\ heap[updates[1]].id # NoId
        /\ Len(inserts) = 1 /\ heap[inserts[1]].id = NoId

\* C7: no step lowers a lifetime counter, and a step that changes one is
\* the counting step of a flush that made a write call.
C7_CounterMonotonic ==
    [][/\ _inserts' >= _inserts
       /\ _updates' >= _updates
       /\ (_inserts' # _inserts \/ _updates' # _updates)
            => /\ \E t \in Threads : pc[t] = "c_count"
               /\ WritesDone # {}]_vars

\* Both counters have grown.
C7_Witness == _inserts > 0 /\ _updates > 0

\* C8: no two threads are inside the locked section at once, and a thread
\* inside it owns the lock.
C8_MutualExclusion ==
    \A t \in Threads :
        InSection(t) =>
            /\ lockOwner = t
            /\ \A u \in Threads \ {t} : ~InSection(u)

\* One thread is writing while another waits for the lock.
C8_Witness ==
    \E t \in Threads : \E u \in Threads \ {t} :
        pc[t] = "fl_save" /\ pc[u] \in {"u_lock", "f_lock"}

\* C9: a failing bulk insert or save ends the call with the exception and
\* changes neither the lists nor the total nor the counters; afterwards
\* the lists are not empty and the total and the counters are those the
\* flush was entered with.
C9_WriteFailure ==
    [][/\ \A t \in Threads :
            (pc[t] \in {"fl_insert", "fl_save"} /\ failures' = failures + 1)
            => /\ pc'[t] = "idle"
               /\ outcome'[t] = "raised"
               /\ UNCHANGED <<updates, inserts, total, _inserts, _updates>>
       /\ LastFailed({"insert", "save"})
            => /\ inserts # << >> \/ updates # << >>
               /\ total = pre.total
               /\ _inserts = pre._inserts
               /\ _updates = pre._updates]_vars

\* A save has failed after the bulk insert of the same flush went through.
C9_Witness ==
    /\ \E t \in Threads : pc[t] = "idle" /\ outcome[t] = "raised"
    /\ LastFailed({"save"})
    /\ \E i \in WritesDone : wire[i].op = "insert"
    /\ inserts # << >>

\* C10: after a failing find, the lists, the documents, the total and the
\* collection are as they were when the flush was entered, and the flush
\* made no call other than find.
C10_FindFailureAtomic ==
    LastFailed({"find"})
    => /\ inserts = pre.inserts
       /\ updates = pre.updates
       /\ heap = pre.heap
       /\ total = pre.total
       /\ remote = pre.remote
       /\ \A i \in 1..Len(wire) : wire[i].op = "find"

\* The second find of a flush has failed after the first came back.
C10_Witness ==
    /\ LastFailed({"find"})
    /\ Len(wire) = 2 /\ wire[1].ok
    /\ inserts # << >>

\* The find calls of the current flush.
Finds == {i \in 1..Len(wire) : wire[i].op = "find"}

\* The unique-attribute field names in effect among the pending inserts
\* the current flush was entered with.
UniqueNames == {Unique(pre.heap[r]) : r \in Range(pre.inserts)} \ {None}

\* Thread t is in _flush, past the lookups of lines 101-106.
PastFinds(t) ==
    pc[t] \in {"fl_val", "fl_setid", "fl_append", "fl_insert", "fl_save", "c_count"}

\* The number of finds of a flush is the number of field names in effect.
OneFindPerName ==
    \A t \in Threads :
        /\ PastFinds(t) => Cardinality(Finds) = Cardinality(UniqueNames)
        /\ pc[t] = "fl_find" => Cardinality(Finds) < Cardinality(UniqueNames)

\* C11: a flush makes as many find calls as there are distinct field names
\* in effect among its pending inserts, however many inserts share a name;
\* and when its writes are done, every pending insert with no field name
\* in effect was carried by its bulk insert.
C11_SingleQueryPerKey ==
    /\ OneFindPerName
    /\ \A t \in Threads : pc[t] = "c_count" =>
        \A r \in Range(pre.inserts) :
            Unique(pre.heap[r]) = None
            => \E i \in WritesDone : wire[i].op = "insert" /\ r \in Range(wire[i].docs)


\* Under a threshold <= 0 every document update has appended was followed
\* by a flush, and update is about to return with nothing pending.
FlushedOnEveryAdd(t) ==
    /\ nflush[t] = Len(docs[t])
    /\ total = 0 /\ inserts = << >> /\ updates = << >>

\* C12 as stated: under a threshold <= 0, any update call that returns
\* has flushed once per document and leaves the total at 0 and both lists
\* empty.
C12_AnyUpdateFlushesAll ==
    \A t \in Threads :
        (AtUpdateExit(t) /\ threshold <= 0) => FlushedOnEveryAdd(t)

\* C12: under a threshold <= 0, an update call of at least one document
\* that returns has flushed once per document and leaves the total at 0
\* and both lists empty.
C12_NonPositiveThreshold ==
    \A t \in Threads :
        (AtUpdateExit(t) /\ threshold <= 0 /\ Len(docs[t]) >= 1)
        => FlushedOnEveryAdd(t)

\* An update of two documents under a negative threshold is about to
\* return after two flushes.
C12_Witness ==
    \E t \in Threads :
        /\ AtUpdateExit(t) /\ threshold < 0
        /\ Len(docs[t]) = 2 /\ nflush[t] = 2


\* The number of documents the write calls of the current flush carried.
DocsWritten ==
    Cardinality({p \in (1..Len(wire)) \X (1..Len(heap)) :
                    p[1] \in WritesDone /\ p[2] <= Len(wire[p[1]].docs)})

CallsOf(op) == SelectSeq(wire, LAMBDA c : c.op = op)

Pos(s, x) == CHOOSE i \in 1..Len(s) : s[i] = x

\* s holds elements of u, in the order they have in u.
InOrderOf(s, u) ==
    /\ Range(s) \subseteq Range(u)
    /\ \A a, b \in 1..Len(s) : a < b => Pos(u, s[a]) < Pos(u, s[b])

\* C14: in the calls of one flush every find comes before any write and
\* the bulk insert, of which there is at most one, before any save; the
\* bulk insert carries the inserts list as it stands, which keeps the order
\* of accumulation; the k-th save carries the k-th document of updates,
\* which is the updates list the flush was entered with followed by
\* documents that were pending inserts; and a flush whose writes are done
\* has made one bulk insert if inserts is not empty and none if it is, and
\* one save per document of updates.
C14_WireOrdering ==
    /\ \A i, j \in 1..Len(wire) :
        i < j => /\ wire[j].op = "find" => wire[i].op = "find"
                 /\ wire[j].op = "insert" => wire[i].op = "find"
    /\ \A i \in 1..Len(wire) :
        wire[i].op = "insert" => InOrderOf(wire[i].docs, pre.inserts)
    /\ \A t \in Threads : pc[t] \in {"fl_insert", "fl_save", "c_count"} =>
        /\ \A i \in 1..Len(wire) : wire[i].op = "insert" => wire[i].docs = inserts
        /\ Len(CallsOf("save")) <= Len(updates)
        /\ \A k \in 1..Len(CallsOf("save")) : CallsOf("save")[k].docs = <<updates[k]>>
        /\ Len(updates) >= Len(pre.updates)
        /\ SubSeq(updates, 1, Len(pre.updates)) = pre.updates
        /\ \A k \in (Len(pre.updates) + 1)..Len(updates) :
            updates[k] \in Range(pre.inserts)
    /\ \A t \in Threads : pc[t] = "c_count" =>
        /\ Len(CallsOf("insert")) = (IF inserts # << >> THEN 1 ELSE 0)
        /\ Len(CallsOf("save")) = Len(updates)

\* A flush has made a find, then a bulk insert, then the save of a document
\* that was moved, and its writes are done.
C14_Witness ==
    /\ \E t \in Threads : pc[t] = "c_count"
    /\ Len(wire) = 3
    /\ wire[1].op = "find" /\ wire[2].op = "insert" /\ wire[3].op = "save"
    /\ wire[3].docs[1] \in Range(pre.inserts)
    /\ wire[3].docs[1] \notin Range(wire[2].docs)


\* self.total is the number of pending documents.
TotalIsPending == total = Len(updates) + Len(inserts)

\* Thread t is between two statements that together keep the total in
\* step with the lists: append and increment (lines 65-68), remove and
\* append (lines 115-117), the new lists and the reset of the total
\* (lines 129-132).
MidStep(t) == pc[t] \in {"u_total", "fl_setid", "fl_append", "c_total"}

\* C15 as stated: the total is the number of pending documents in every
\* state in which no thread is between an append and the increment, the
\* steps of the reconciliation and of _clear included.
C15_TotalInvariantEveryStep ==
    (\A t \in Threads : pc[t] # "u_total") => TotalIsPending

\* C15: the total is the number of pending documents in every state in
\* which no thread is between an append and the increment, between the
\* removal of a document from inserts and its append to updates, or
\* between the emptying of the lists and the reset of the total; so it is
\* whenever no call is in progress, after a failed call too.
C15_TotalInvariant ==
    (\A t \in Threads : ~MidStep(t)) => TotalIsPending

\* A flush that has moved a document from inserts to updates is at its
\* writes, with something pending.
C15_Witness ==
    /\ \E t \in Threads : pc[t] \in {"fl_insert", "fl_save"}
    /\ Len(updates) > Len(pre.updates)
    /\ total > 0


\* C16: no document is in both updates and inserts; and the document the
\* reconciliation is moving has left inserts once line 115 has run.
C16_ListsDisjoint ==
    /\ Range(updates) \cap Range(inserts) = {}
    /\ \A t \in Threads :
        pc[t] \in {"fl_setid", "fl_append"} => document[t] \notin Range(inserts)


\* C18: a thread that is in no call (its calls have returned, or ended
\* with an exception) does not own the lock.
C18_LockReleasedOnExit ==
    \A t \in Threads : pc[t] = "idle" => lockOwner # t


\* ---------------------------------------------------------------- fairness
\* The steps of thread t that neither start a call nor wait for the lock,
\* every collection call coming back.
Run(t) ==
    \/ UpdateAppend(t)
    \/ UpdateTotal(t)
    \/ UpdateFlush(t)
    \/ UpdateNoFlush(t)
    \/ UpdateUnlock(t)
    \/ FlushSkip(t)
    \/ FlushSkipUnlock(t)
    \/ FlushStart(t)
    \/ FlushFind(t)
    \/ FlushRemove(t)
    \/ FlushRemoveError(t)
    \/ FlushSetId(t)
    \/ FlushAppend(t)
    \/ FlushInsert(t)
    \/ FlushSave(t)
    \/ ClearCount(t)
    \/ ClearDocs(t)
    \/ ClearTotal(t)
    \/ FlushUnlock(t)

\* The updater with a collection whose calls all come back.
NextOk ==
    \E t \in Threads :
        \/ UpdateCall(t)
        \/ FlushCall(t)
        \/ UpdateLock(t)
        \/ FlushLock(t)
        \/ Run(t)

\* A thread that can take a step takes one; a thread that waits for the
\* lock gets it if the lock is free again and again.  Nothing obliges a
\* thread to start a call.
FairSpec ==
    /\ Init
    /\ [][NextOk]_vars
    /\ \A t \in Threads :
        /\ WF_vars(Run(t))
        /\ SF_vars(UpdateLock(t))
        /\ SF_vars(FlushLock(t))

\* Thread t is in no call, and its last call, if any, returned.
Returned(t) == pc[t] = "idle" /\ outcome[t] = "none"

\* C17: a flush called from update finds the lock takable; every call
\* that was started returns; and when no thread is in a call the lock is
\* free.
C17_DeadlockFree ==
    /\ [](\A t \in Threads : (pc[t] = "f_lock" /\ nested[t]) => CanAcquire(t))
    /\ \A t \in Threads : (pc[t] # "idle") ~> Returned(t)
    /\ []((\A t \in Threads : pc[t] = "idle") => lockOwner = NoThread)


\* No thread is in an update or flush call.
NoCall == \A t \in Threads : pc[t] = "idle"

\* C19: under a threshold N >= 1, as long as no collection call has
\* failed, the total is below N whenever no call is in progress.
C19_BoundedBacklog ==
    (threshold >= 1 /\ failures = 0 /\ NoCall) => total < threshold


\* The collection rem holds at most one document per value of field k.
UniquePer(rem, k) ==
    \A i, j \in 1..Len(rem) : rem[i][k] = rem[j][k] => i = j

\* C20: when the writes of a flush are done and every pending insert it
\* was entered with had the field name k in effect: if the collection
\* held at most one document per value of k on entry, it still does.
C20_RemoteUniqueness ==
    \A t \in Threads : \A k \in Keys :
        ( /\ pc[t] = "c_count"
          /\ \A r \in Range(pre.inserts) : Unique(pre.heap[r]) = k
          /\ UniquePer(pre.remote, k) )
        => UniquePer(remote, k)
====
